---- MODULE Spec2Model ----
(***************************************************************************)
(* The rule-dispatch engine of batch_process: BatchProcessor.run           *)
(* (src/core/engine.py) walking a directory tree, resolving the            *)
(* processors of every node, invoking them with fault isolation,           *)
(* reporting progress and polling for cancellation.                        *)
(***************************************************************************)
EXTENDS Integers, Sequences, FiniteSets, TLC

\* ------------------------------------------------------------------------
\* Bounds of the model
\* ------------------------------------------------------------------------
\* at most this many rules in a configuration
MaxRules == 2

\* at most this many segments in the path of a nested dict
MaxDepth == 2

\* at most this many registrations of one name after the first
MaxReloads == 1

\* at most this many records handed to enqueue_persist
MaxRecords == 3

\* ------------------------------------------------------------------------
\* The directory tree.  A node is the sequence of the path parts below the
\* root; the root is <<>>.
\* ------------------------------------------------------------------------
Root == <<>>

\* names in the order sorted() gives them (Path.__lt__ compares the parts)
NameOrder == <<"a.txt", "b.log", "d", "f.txt">>

DirNames == {"d"}

Ext == [n \in {"a.txt", "b.log", "d", "f.txt"} |->
          CASE n \in {"a.txt", "f.txt"} -> "txt"
            [] n = "b.log" -> "log"
            [] OTHER -> ""]

is_dir(n) == n = Root \/ n[Len(n)] \in DirNames

\* sorted(path.iterdir())
Children(t, n) ==
  LET has(nm) == Append(n, nm) \in t
      names == SelectSeq(NameOrder, has)
  IN  [i \in 1..Len(names) |-> Append(n, names[i])]

\* ------------------------------------------------------------------------
\* Patterns: the key of a rule, as its "/"-separated segments and whether
\* it ends in "/".  "." is the pattern of the root itself.
\* ------------------------------------------------------------------------
PatDot    == [segs |-> <<".">>, slash |-> FALSE]
PatStar   == [segs |-> <<"*">>, slash |-> FALSE]
PatTxt    == [segs |-> <<"*.txt">>, slash |-> FALSE]
PatLog    == [segs |-> <<"*.log">>, slash |-> FALSE]
PatAnyTxt == [segs |-> <<"**", "*.txt">>, slash |-> FALSE]
PatDir    == [segs |-> <<"d">>, slash |-> TRUE]

Patterns == {PatDot, PatStar, PatTxt, PatLog, PatAnyTxt, PatDir}

\* one segment of a glob pattern against one part of a path
SegMatch(tok, name) ==
  CASE tok = "*"     -> TRUE
    [] tok = "*.txt" -> Ext[name] = "txt"
    [] tok = "*.log" -> Ext[name] = "log"
    [] OTHER         -> tok = name

\* glob.globmatch(rel_path, pattern, flags=GLOBSTAR) on a path below the root
RECURSIVE GlobMatch(_, _)
GlobMatch(segs, parts) ==
  IF segs = <<>> THEN parts = <<>>
  ELSE IF Head(segs) = "**"
       THEN GlobMatch(Tail(segs), parts)
            \/ (parts # <<>> /\ GlobMatch(segs, Tail(parts)))
       ELSE /\ parts # <<>>
            /\ SegMatch(Head(segs), Head(parts))
            /\ GlobMatch(Tail(segs), Tail(parts))

\* BatchProcessor._match_rule; the relative path of the root is ".", which
\* no wildcard matches
_match_rule(path, pattern, isdir) ==
  IF pattern = PatDot THEN path = Root
  ELSE IF path = Root THEN FALSE
  ELSE IF pattern.slash
       THEN isdir /\ GlobMatch(pattern.segs, path)
       ELSE GlobMatch(pattern.segs, path)

\* ------------------------------------------------------------------------
\* Rule resolution
\* ------------------------------------------------------------------------
\* for p in procs: lst.append((p, config, priority)); `bucket` and `pos`
\* remember which of the three candidate lists the entry was added to and
\* its place in the rule's list
add_to_list(procs, config, priority, bucket) ==
  [i \in 1..Len(procs) |->
     [name |-> procs[i], config |-> config, priority |-> priority,
      bucket |-> bucket, pos |-> i]]

RuleList(rule, bucket) ==
  CASE bucket = "inline" -> rule.processors
    [] bucket = "pre"    -> rule.pre_processors
    [] bucket = "post"   -> rule.post_processors

\* isinstance(rule, dict), line 230: a rule whose body is not a mapping is
\* passed over
is_mapping(rule) == rule.shape # "not_a_mapping"

\* what makes the resolution of a path raise TypeError: a matching rule one
\* of whose lists is not iterable (for p in procs, line 240), or a matching
\* rule with entries whose priority has no negation (the sort key -x[2],
\* line 257)
ResolutionRaises(rules, path, isdir) ==
  \E k \in 1..Len(rules) :
    /\ is_mapping(rules[k])
    /\ _match_rule(path, rules[k].pattern, isdir)
    /\ \/ rules[k].shape = "list_not_iterable"
       \/ /\ rules[k].shape = "priority_not_a_number"
          /\ \E b \in {"pre", "inline", "post"} : RuleList(rules[k], b) # <<>>

\* the loop over self.config.items(): the candidates of one bucket, in the
\* declaration order of the rules
RECURSIVE Candidates(_, _, _, _)
Candidates(rules, path, isdir, bucket) ==
  IF rules = <<>> THEN <<>>
  ELSE LET rule == Head(rules)
           mine == IF is_mapping(rule)
                      /\ _match_rule(path, rule.pattern, isdir)
                   THEN add_to_list(RuleList(rule, bucket), rule.config,
                                    rule.priority, bucket)
                   ELSE <<>>
       IN  mine \o Candidates(Tail(rules), path, isdir, bucket)

\* x goes after every element whose key -priority is not greater than its own
RECURSIVE InsertByPriority(_, _)
InsertByPriority(x, s) ==
  IF s = <<>> THEN <<x>>
  ELSE IF -Head(s).priority <= -x.priority
       THEN <<Head(s)>> \o InsertByPriority(x, Tail(s))
       ELSE <<x>> \o s

\* sorted(candidates[phase], key=lambda x: -x[2]): ascending in -priority,
\* equal keys in their original order
RECURSIVE SortedInto(_, _)
SortedInto(done, todo) ==
  IF todo = <<>> THEN done
  ELSE SortedInto(InsertByPriority(Head(todo), done), Tail(todo))

\* a sort that is not stable: x goes before the elements of equal key
RECURSIVE InsertBeforeEqual(_, _)
InsertBeforeEqual(x, s) ==
  IF s = <<>> THEN <<x>>
  ELSE IF -Head(s).priority < -x.priority
       THEN <<Head(s)>> \o InsertBeforeEqual(x, Tail(s))
       ELSE <<x>> \o s

RECURSIVE UnstableInto(_, _)
UnstableInto(done, todo) ==
  IF todo = <<>> THEN done
  ELSE UnstableInto(InsertBeforeEqual(Head(todo), done), Tail(todo))

sorted_unstable(procs) == UnstableInto(<<>>, procs)

\* a stable sort on the key priority instead of -priority
RECURSIVE InsertAscending(_, _)
InsertAscending(x, s) ==
  IF s = <<>> THEN <<x>>
  ELSE IF Head(s).priority <= x.priority
       THEN <<Head(s)>> \o InsertAscending(x, Tail(s))
       ELSE <<x>> \o s

RECURSIVE AscendingInto(_, _)
AscendingInto(done, todo) ==
  IF todo = <<>> THEN done
  ELSE AscendingInto(InsertAscending(Head(todo), done), Tail(todo))

sorted_ascending(procs) == AscendingInto(<<>>, procs)

sorted(procs) == SortedInto(<<>>, procs)

\* a resolution that keeps only the first entry of every name
RECURSIVE unique_entries(_)
unique_entries(procs) ==
  IF procs = <<>> THEN <<>>
  ELSE LET rest == unique_entries(SubSeq(procs, 1, Len(procs) - 1))
           x == procs[Len(procs)]
       IN  IF \E i \in 1..Len(rest) : rest[i].name = x.name
           THEN rest
           ELSE Append(rest, [name |-> x.name, config |-> x.config,
                              bucket |-> x.bucket, pos |-> x.pos])

\* [(name, cfg) for name, cfg, _ in sorted_procs]
Entries(procs) ==
  [i \in 1..Len(procs) |->
     [name |-> procs[i].name, config |-> procs[i].config,
      bucket |-> procs[i].bucket, pos |-> procs[i].pos]]

Names(entries) == {entries[i].name : i \in 1..Len(entries)}

\* a recorder appended whether or not the bucket names it already
InjectedAlways(entries, recname, registered, bucket) ==
  IF recname # "" /\ recname \in registered
  THEN Append(entries, [name |-> recname, config |-> <<"{}">>,
                        bucket |-> bucket, pos |-> 0])
  ELSE entries

\* lines 269-272 and 275-278: the built-in recorder is appended, with an
\* empty config, to a bucket when it is registered and the bucket does not
\* name it yet
Injected(entries, recname, registered, bucket) ==
  IF recname # "" /\ recname \in registered
     /\ recname \notin Names(entries)
  THEN Append(entries, [name |-> recname, config |-> <<"{}">>,
                        bucket |-> bucket, pos |-> 0])
  ELSE entries

\* BatchProcessor._get_processors_for_path
_get_processors_for_path(cfg, registered, path, isdir) ==
  LET result == [b \in {"pre", "inline", "post"} |->
                   Entries(sorted(Candidates(cfg.rules, path, isdir, b)))]
  IN  IF cfg.enable_builtin_recorders
      THEN [pre    |-> result["pre"],
            inline |-> Injected(result["inline"],
                                cfg.builtin_recorders.record,
                                registered, "inline"),
            post   |-> Injected(result["post"],
                                cfg.builtin_recorders.persist,
                                registered, "post")]
      ELSE [pre |-> result["pre"], inline |-> result["inline"],
            post |-> result["post"]]

\* _count_total_processor_calls: the dry pass over the tree
RECURSIVE CountWalk(_, _, _, _)
CountWalk(cfg, registered, t, todo) ==
  IF todo = <<>> THEN 0
  ELSE LET p == Head(todo)
           rules == _get_processors_for_path(cfg, registered, p, is_dir(p))
           kids == IF is_dir(p) THEN Children(t, p) ELSE <<>>
       IN  Len(rules["pre"]) + Len(rules["inline"]) + Len(rules["post"])
           + CountWalk(cfg, registered, t, kids \o Tail(todo))

\* the dry pass resolves every node of the tree, so it raises what the
\* resolution of any of them raises; nothing in run catches it
WalkRaises(cfg, t) ==
  \E n \in t \cup {Root} : ResolutionRaises(cfg.rules, n, is_dir(n))

\* a dry pass that does not descend into the children of the root
count_root_only(cfg, registered, t) ==
  CountWalk(cfg, registered, {}, <<Root>>)

_count_total_processor_calls(cfg, registered, t) ==
  CountWalk(cfg, registered, t, <<Root>>)

\* ------------------------------------------------------------------------
\* Inputs: the registries and the configurations of the model
\* ------------------------------------------------------------------------
None == "None"

\* PROCESSORS as the decorators filled it before the run; what each
\* registered callable does when invoked: p1 returns, p2 raises, rec calls
\* context.add_result (and writes data and shared) and returns.  A rule
\* can also name px, which is not registered.
Behaviour == [p1 |-> "returned", p2 |-> "raised", rec |-> "wrote"]
PROCESSORS == DOMAIN Behaviour

\* PRE_PROCESSORS and POST_PROCESSORS, and what each registered hook does
\* when invoked.  A configuration can also name hx, which is in neither
\* registry.
HookBehaviour == [init |-> "returned", final |-> "returned",
                  bad_init |-> "raised", bad_final |-> "raised"]
PRE_PROCESSORS == {"init", "bad_init"}
POST_PROCESSORS == {"final", "bad_final"}

Priorities == {1, 10}

\* the processor lists of a rule (an absent key and an empty list resolve
\* alike)
Bodies ==
  {[pre_processors |-> <<>>, processors |-> <<"p1">>,
    post_processors |-> <<>>],
   [pre_processors |-> <<>>, processors |-> <<"px", "p2">>,
    post_processors |-> <<>>],
   [pre_processors |-> <<"rec">>, processors |-> <<>>,
    post_processors |-> <<"p1">>]}

\* every rule has its own config mapping, named here after its pattern;
\* `shape` tells a well-formed rule from a malformed one
Rule(pattern, priority, body) ==
  [pattern |-> pattern, priority |-> priority, shape |-> "ok",
   config |-> <<"config of", pattern.segs>>,
   pre_processors |-> body.pre_processors,
   processors |-> body.processors,
   post_processors |-> body.post_processors]

Rules ==
  {Rule(p, q, b) : p \in {PatDot, PatStar, PatAnyTxt, PatDir},
                   q \in Priorities, b \in Bodies}

\* a configuration is a mapping: its keys (the patterns) are distinct, and
\* items() yields the rules in declaration order
RuleSeqs ==
  UNION {{s \in [1..k -> Rules] :
            \A i, j \in 1..k : i # j => s[i].pattern # s[j].pattern} :
         k \in 0..MaxRules}

Config(rules, pre, post) ==
  [rules |-> rules, pre_process |-> pre, post_process |-> post,
   enable_builtin_recorders |-> FALSE,
   builtin_recorders |-> [record |-> "record_to_shared",
                          persist |-> "persist_history_sqlite"]]

\* the configuration of the scenario of the specification, section 8:
\* {"*.txt": {processors: [p1], priority: 5},
\*  "*.log": {processors: [p2], priority: 1}}
ScenarioConfig ==
  Config(<<Rule(PatTxt, 5, [pre_processors |-> <<>>,
                            processors |-> <<"p1">>,
                            post_processors |-> <<>>]),
           Rule(PatLog, 1, [pre_processors |-> <<>>,
                            processors |-> <<"p2">>,
                            post_processors |-> <<>>])>>, None, None)

\* a configuration that names p1 three times for the inline bucket of
\* every .txt file directly below the root: twice in the list of one rule,
\* once in another rule
RepeatConfig ==
  Config(<<Rule(PatStar, 1, [pre_processors |-> <<>>,
                             processors |-> <<"p1", "p1">>,
                             post_processors |-> <<>>]),
           Rule(PatAnyTxt, 1, [pre_processors |-> <<>>,
                               processors |-> <<"p1">>,
                               post_processors |-> <<>>])>>, None, None)

\* a configuration that gives the directory d a pre entry of priority 1, an
\* inline entry of priority 10 and a post entry, and the files below it an
\* inline entry
EntryConfig ==
  Config(<<Rule(PatDir, 1, [pre_processors |-> <<"rec">>,
                            processors |-> <<>>,
                            post_processors |-> <<"p1">>]),
           Rule(PatStar, 10, [pre_processors |-> <<>>,
                              processors |-> <<"p1">>,
                              post_processors |-> <<>>]),
           Rule(PatAnyTxt, 1, [pre_processors |-> <<>>,
                               processors |-> <<"p2">>,
                               post_processors |-> <<>>])>>, None, None)

\* the configurations of the runs: every rule sequence without global
\* hooks, the sequences of at most one rule with each choice of hooks, the
\* scenario, the configuration with repeated names and the one with the
\* three buckets on a directory
Hooks == {<<"init", None>>, <<None, "final">>, <<"init", "final">>}

Configs ==
  {Config(s, None, None) : s \in RuleSeqs}
  \cup {Config(s, g[1], g[2]) : s \in {t \in RuleSeqs : Len(t) <= 1},
                                g \in Hooks}
  \cup {ScenarioConfig, RepeatConfig, EntryConfig}

\* the trees of the runs: two files; a file beside a directory holding a
\* file
RunTrees ==
  {{<<"a.txt">>, <<"b.log">>},
   {<<"a.txt">>, <<"d">>, <<"d", "f.txt">>}}

\* ------------------------------------------------------------------------
\* Nested dicts (decorators/processor.py and utils/nested_dicts.py).  A
\* Python value is a record: a dict with its items (a function on its
\* keys), or a scalar.
\* ------------------------------------------------------------------------
NoItems == [k \in {} |-> None]

mk_dict(items) == [isdict |-> TRUE, scalar |-> "", items |-> items]

mk_scalar(v) == [isdict |-> FALSE, scalar |-> v, items |-> NoItems]

EmptyDict == mk_dict(NoItems)

PyNone == mk_scalar(None)
PyTrue == mk_scalar("True")
PyFalse == mk_scalar("False")

\* key in d
has(d, k) == k \in DOMAIN d.items

\* d[k] = v
bind(d, k, v) ==
  mk_dict([x \in DOMAIN d.items \cup {k} |-> IF x = k THEN v ELSE d.items[x]])

\* d.pop(k, None): the dict afterwards
pop(d, k) == mk_dict([x \in DOMAIN d.items \ {k} |-> d.items[x]])

\* not d: a dict without items
is_empty(d) == DOMAIN d.items = {}

\* the result of a helper: the dict as the call leaves it, what it returned
\* and what it raised
Outcome(d, ret, raised) == [d |-> d, ret |-> ret, raised |-> raised]

\* a walk that replaces a scalar on the way by a new mapping
RECURSIVE SetWalkOverwrite(_, _, _)
SetWalkOverwrite(shared, keys, value) ==
  IF Len(keys) = 1 THEN Outcome(bind(shared, keys[1], value), PyNone, None)
  ELSE LET key == Head(keys)
           made == IF ~has(shared, key) \/ ~shared.items[key].isdict
                   THEN bind(shared, key, EmptyDict)
                   ELSE shared
           r == SetWalkOverwrite(made.items[key], Tail(keys), value)
       IN  Outcome(bind(made, key, r.d), r.ret, r.raised)

\* set_dict_data, the loop over keys[:-1] and the final assignment; a
\* mapping created on the way stays in the dict when a later segment raises
RECURSIVE SetWalk(_, _, _)
SetWalk(shared, keys, value) ==
  IF Len(keys) = 1 THEN Outcome(bind(shared, keys[1], value), PyNone, None)
  ELSE LET key == Head(keys)
           made == IF ~has(shared, key) THEN bind(shared, key, EmptyDict)
                   ELSE shared
       IN  IF ~made.items[key].isdict
           THEN Outcome(made, PyNone, "TypeError")
           ELSE LET r == SetWalk(made.items[key], Tail(keys), value)
                IN  Outcome(bind(made, key, r.d), r.ret, r.raised)

\* the string that has these characters
Str(chars) ==
  CASE chars = <<>> -> ""
    [] chars = <<"a">> -> "a"
    [] chars = <<"b">> -> "b"
    [] chars = <<"c">> -> "c"
    [] chars = <<"a", "b">> -> "ab"

\* set_dict_data(datadict, keys, value) of decorators/processor.py.  keys
\* is [list |-> TRUE, segs] for a list and [list |-> FALSE, segs] for a
\* single key, a string with the characters segs.  The single-key branch
\* (lines 17-18) binds the key and does not return, so the list code then
\* runs on the string: its characters are the path.  For a key of one
\* character keys[:-1] is empty and keys[-1] is the key, so the same
\* binding is made again.
set_dict_data(datadict, keys, value) ==
  IF ~keys.list
  THEN LET bound == bind(datadict, Str(keys.segs), value)
       IN  IF Len(keys.segs) = 0 THEN Outcome(bound, PyNone, "ValueError")
           ELSE SetWalk(bound, keys.segs, value)
  ELSE IF Len(keys.segs) = 0 THEN Outcome(datadict, PyNone, "ValueError")
  ELSE SetWalk(datadict, keys.segs, value)

\* set_dict_data(datadict, keys, value) of utils/nested_dicts.py: the
\* single-key branch returns (lines 18-20)
nested_dicts_set_dict_data(datadict, keys, value) ==
  IF ~keys.list
  THEN Outcome(bind(datadict, Str(keys.segs), value), PyNone, None)
  ELSE IF Len(keys.segs) = 0 THEN Outcome(datadict, PyNone, "ValueError")
  ELSE SetWalk(datadict, keys.segs, value)

\* a walk that returns None, not the default, from the except clause
RECURSIVE GetWalkNone(_, _, _)
GetWalkNone(shared, keys, default) ==
  IF keys = <<>> THEN shared
  ELSE IF ~shared.isdict \/ ~has(shared, Head(keys)) THEN PyNone
  ELSE GetWalkNone(shared.items[Head(keys)], Tail(keys), default)

\* get_dict_data, the loop in the try block: KeyError is caught
RECURSIVE GetWalk(_, _, _)
GetWalk(shared, keys, default) ==
  IF keys = <<>> THEN shared
  ELSE IF ~shared.isdict \/ ~has(shared, Head(keys)) THEN default
  ELSE GetWalk(shared.items[Head(keys)], Tail(keys), default)

\* get_dict_data(datadict, keys, default): the dict is not written
get_dict_data(datadict, keys, default) ==
  IF ~keys.list
  THEN Outcome(datadict,
               IF has(datadict, keys.segs[1])
               THEN datadict.items[keys.segs[1]] ELSE default, None)
  ELSE IF Len(keys.segs) = 0 THEN Outcome(datadict, default, None)
  ELSE Outcome(datadict, GetWalk(datadict, keys.segs, default), None)

\* dict.setdefault(k, default)
dict_setdefault(d, k, default) ==
  IF has(d, k) THEN Outcome(d, d.items[k], None)
  ELSE Outcome(bind(d, k, default), default, None)

\* setdefault_dict_data, the loop over keys[:-1] and the final setdefault
RECURSIVE SetdefaultWalk(_, _, _)
SetdefaultWalk(shared, keys, default) ==
  IF Len(keys) = 1 THEN dict_setdefault(shared, keys[1], default)
  ELSE LET key == Head(keys)
           made == IF ~has(shared, key) THEN bind(shared, key, EmptyDict)
                   ELSE shared
       IN  IF ~made.items[key].isdict
           THEN Outcome(made, PyNone, "TypeError")
           ELSE LET r == SetdefaultWalk(made.items[key], Tail(keys), default)
                IN  Outcome(bind(made, key, r.d), r.ret, r.raised)

\* setdefault_dict_data(datadict, keys, default)
setdefault_dict_data(datadict, keys, default) ==
  IF ~keys.list THEN dict_setdefault(datadict, keys.segs[1], default)
  ELSE IF Len(keys.segs) = 0 THEN Outcome(datadict, default, None)
  ELSE SetdefaultWalk(datadict, keys.segs, default)

\* ProcessingContext.delete_shared, the walk to the parent of the last key
\* and the pop; nothing is returned
RECURSIVE DeleteSharedWalk(_, _)
DeleteSharedWalk(parent, keys) ==
  IF Len(keys) = 1
  THEN IF parent.isdict THEN pop(parent, keys[1]) ELSE parent
  ELSE IF ~parent.isdict \/ ~has(parent, Head(keys)) THEN parent
  ELSE bind(parent, Head(keys),
            DeleteSharedWalk(parent.items[Head(keys)], Tail(keys)))

\* ProcessingContext.delete_shared(keys) on self.shared
delete_shared(shared, keys) ==
  IF ~keys.list THEN Outcome(pop(shared, keys.segs[1]), PyNone, None)
  ELSE IF Len(keys.segs) = 0 THEN Outcome(shared, PyNone, None)
  ELSE Outcome(DeleteSharedWalk(shared, keys.segs), PyNone, None)

\* utils.nested_dicts.delete_dict_data, the walk to the parent of the last
\* key, the pop and, on the way back, the loop over reversed(parents): the
\* entry k of p goes when it is an empty dict, and the loop breaks at the
\* first that is not (its ancestors hold it, so they are not empty either)
RECURSIVE DeleteWalk(_, _)
DeleteWalk(parent, keys) ==
  IF Len(keys) = 1
  THEN IF ~parent.isdict \/ ~has(parent, keys[1])
       THEN Outcome(parent, PyFalse, None)
       ELSE Outcome(pop(parent, keys[1]), PyTrue, None)
  ELSE IF ~parent.isdict \/ ~has(parent, Head(keys))
  THEN Outcome(parent, PyFalse, None)
  ELSE LET r == DeleteWalk(parent.items[Head(keys)], Tail(keys))
       IN  IF r.ret = PyTrue /\ r.d.isdict /\ is_empty(r.d)
           THEN Outcome(pop(parent, Head(keys)), r.ret, None)
           ELSE Outcome(bind(parent, Head(keys), r.d), r.ret, None)

\* utils.nested_dicts.delete_dict_data(datadict, keys); for a single key:
\* datadict.pop(keys, None) is not None
delete_dict_data(datadict, keys) ==
  IF ~keys.list
  THEN Outcome(pop(datadict, keys.segs[1]),
               IF has(datadict, keys.segs[1])
                  /\ datadict.items[keys.segs[1]] # PyNone
               THEN PyTrue ELSE PyFalse, None)
  ELSE IF Len(keys.segs) = 0 THEN Outcome(datadict, PyFalse, None)
  ELSE DeleteWalk(datadict, keys.segs)

\* ------------------------------------------------------------------------
\* State
\* ------------------------------------------------------------------------
VARIABLES
  tree,         \* the directory tree below root_path
  config,       \* BatchProcessor.config
  pc,           \* where run is: idle, global_pre, walk, global_post, done
  stack,        \* the frames of _process_path_recursive, innermost last
  total_steps,  \* run's total_steps
  step,         \* current_step / step_counter[0]
  context,      \* the ProcessingContext: data, shared, results, metadata
  worker,       \* BatchProcessor.worker: None, or the worker of a thread
  interrupted,  \* worker.thread().isInterruptionRequested()
  progress,     \* history: the calls of _call_progress
  invoked,      \* history: the invocation attempts, in order
  seen,         \* history: the context when _is_cancelled first returned True
  registry,     \* PROCESSORS: for every registered name, which callable
  started,      \* history: PROCESSORS as it was when run was called
  sink,         \* whether progress_callback and the status log can fail
  root_exists,  \* Path(root_path).exists()
  root_path,    \* self.root_path and context.root_path
  raised,       \* what run raised to its caller
  store,        \* a nested dict handed to the nested-dict helpers
  call,         \* history: the last call of a nested-dict helper
  wqueue,       \* SQLiteBatchWriter._queue
  wbuffer,      \* the buffer of SQLiteBatchWriter._loop
  table,        \* the rows of processed_history, in the order of their ids
  wpc,          \* where the writer thread is in _loop: get or decide
  cpc,          \* where the caller is: enqueue, poll, sleep, returned
  enqueued,     \* history: the records handed to enqueue_persist
  flushed,      \* what flush_history_queue returned, None before it returns
  _shutdown     \* SQLiteBatchWriter._shutdown

engineVars == <<tree, config, pc, stack, total_steps, step, context, worker,
                interrupted, progress, invoked, seen, registry, started, sink,
                root_exists, root_path, raised>>

storeVars == <<store, call>>

writerVars == <<wqueue, wbuffer, table, wpc, cpc, enqueued, flushed,
                _shutdown>>

vars == <<engineVars, storeVars, writerVars>>

EmptyContext == [data |-> {}, shared |-> {}, results |-> <<>>,
                 metadata |-> <<>>]

\* metadata_info = [[], [], [], None, [], []]
NewMetadataInfo ==
  [names |-> <<>>, configs |-> <<>>, outcomes |-> <<>>, order |-> None,
   warnings |-> <<>>, errors |-> <<>>]

\* context.set_metadata(parts_key, value): the keys of a node's path are
\* its own, so the audit records are a mapping from node to record,
\* kept here as a sequence of <<node, record>> in insertion order
RECURSIVE set_metadata(_, _, _)
set_metadata(md, node, value) ==
  IF md = <<>> THEN <<[node |-> node, info |-> value]>>
  ELSE IF Head(md).node = node
       THEN <<[node |-> node, info |-> value]>> \o Tail(md)
       ELSE <<Head(md)>> \o set_metadata(Tail(md), node, value)

get_metadata(md, node) ==
  md[CHOOSE i \in 1..Len(md) : md[i].node = node].info

\* the keys of the nested dicts, and the paths handed to the helpers: the
\* lists of at most MaxDepth keys in alphabetical order (the empty list
\* included), and the single keys
Keys == {"a", "b", "c"}

Rank == [a |-> 1, b |-> 2, c |-> 3]

ListPaths ==
  {p \in UNION {[1..n -> Keys] : n \in 0..MaxDepth} :
     \A i \in 1..(Len(p) - 1) : Rank[p[i]] < Rank[p[i + 1]]}

KeyArgs ==
  {[list |-> TRUE, segs |-> p] : p \in ListPaths}
  \cup {[list |-> FALSE, segs |-> <<k>>] : k \in Keys}

\* the values and defaults handed to the helpers
Values == {mk_scalar("v"), PyNone}

NoCall ==
  [op |-> "none", keys |-> [list |-> TRUE, segs |-> <<>>], value |-> PyNone,
   before |-> EmptyDict, ret |-> PyNone, raised |-> None]

\* no helper has been called
StoreIdle == store = EmptyDict /\ call = NoCall

\* no writer: nothing was handed to enqueue_persist
WriterIdle ==
  /\ wqueue = <<>>
  /\ wbuffer = <<>>
  /\ table = <<>>
  /\ wpc = "get"
  /\ cpc = "enqueue"
  /\ enqueued = <<>>
  /\ flushed = None
  /\ _shutdown = FALSE

\* PROCESSORS after the modules of the processors were imported: every
\* name is bound to the first callable registered under it
InitialRegistry == [n \in PROCESSORS |-> 1]

\* neither the engine nor the context has a root_path before the first run
NoRootPath == [engine |-> None, context |-> None]

\* a BatchProcessor with its configuration, after set_worker and
\* set_progress_callback, about to run on a root that holds one of `trees`
\* or on a root that does not exist
EngineInit(trees, configs, sinks) ==
  /\ root_exists \in BOOLEAN
  /\ tree \in IF root_exists THEN trees ELSE {{}}
  /\ config \in configs
  /\ sink \in sinks
  /\ pc = "idle"
  /\ stack = <<>>
  /\ total_steps = 0
  /\ step = 0
  /\ context = EmptyContext
  /\ worker = "BatchWorker"
  /\ interrupted = FALSE
  /\ progress = <<>>
  /\ invoked = <<>>
  /\ seen = [polled |-> FALSE, context |-> EmptyContext, attempts |-> 0]
  /\ registry = InitialRegistry
  /\ started = InitialRegistry
  /\ root_path = NoRootPath
  /\ raised = None

Init == StoreIdle /\ WriterIdle /\ EngineInit(RunTrees, Configs, {"sound"})

\* ------------------------------------------------------------------------
\* The live pass
\* ------------------------------------------------------------------------
\* BatchProcessor._is_cancelled
_is_cancelled == IF worker # None THEN interrupted ELSE FALSE

\* what the history records when a poll of _is_cancelled returns True for
\* the first time
Polled ==
  IF _is_cancelled /\ ~seen.polled
  THEN [polled |-> TRUE, context |-> context, attempts |-> Len(invoked)]
  ELSE seen

\* one activation of _process_path_recursive
Frame(node) ==
  [node |-> node, stage |-> "enter", todo |-> <<>>, kids |-> <<>>,
   pre_procs |-> <<>>, post_procs |-> <<>>]

Top(st) == st[Len(st)]
Pop(st) == SubSeq(st, 1, Len(st) - 1)
ReplaceTop(st, f) == Append(Pop(st), f)

\* the post-visit list run before the loop over the children
PostBeforeChildren(stage) ==
  CASE stage = "enter" -> "pre"
    [] stage = "pre"   -> "post"
    [] stage = "post"  -> "kids"
    [] stage = "kids"  -> "return"

\* the order of the blocks of _process_path_recursive: resolution, the
\* pre-visit list, the loop over the children, the post-visit list
NextStage(stage) ==
  CASE stage = "enter" -> "pre"
    [] stage = "pre"   -> "kids"
    [] stage = "kids"  -> "post"
    [] stage = "post"  -> "return"

\* a pre-visit list with the inline bucket ahead of the pre bucket
inline_then_pre(rules) == rules["inline"] \o rules["pre"]

\* pre_procs = rules.get("pre", []) + rules.get("inline", []), line 190
pre_then_inline(rules) == rules["pre"] \o rules["inline"]

\* _process_path_recursive between two polls of _is_cancelled: runs the
\* innermost activation up to the next iteration of one of its loops (an
\* entry of a processor list, or a child) and returns to the caller when
\* nothing is left.  Entering a non-empty processor list writes a new
\* audit record for the node (engine.py:319-320).
RECURSIVE _process_path_recursive(_, _)
_process_path_recursive(st, md) ==
  IF st = <<>> THEN [stack |-> st, metadata |-> md]
  ELSE
    LET f == Top(st)
        rules == _get_processors_for_path(config, PROCESSORS, f.node,
                                          is_dir(f.node))
        g == IF f.stage = "enter"
             THEN [f EXCEPT !.pre_procs = pre_then_inline(rules),
                            !.post_procs = rules["post"]]
             ELSE f
        next == NextStage(f.stage)
        procs == IF next = "pre" THEN g.pre_procs ELSE g.post_procs
    IN
    IF f.todo # <<>> \/ f.kids # <<>> THEN [stack |-> st, metadata |-> md]
    ELSE IF next = "return" THEN _process_path_recursive(Pop(st), md)
    ELSE IF next = "kids"
    THEN _process_path_recursive(
           ReplaceTop(st,
             [g EXCEPT !.stage = next,
                       !.kids = IF is_dir(f.node)
                                THEN Children(tree, f.node) ELSE <<>>]),
           md)
    ELSE IF procs # <<>>
    THEN [stack |-> ReplaceTop(st, [g EXCEPT !.stage = next,
                                             !.todo = procs]),
          metadata |-> set_metadata(md, f.node, NewMetadataInfo)]
    ELSE _process_path_recursive(ReplaceTop(st, [g EXCEPT !.stage = next]),
                                 md)

\* the effect of a callable on the context (context.add_result and the
\* data / shared setters)
Invoke(ctx, name, node, outcome) ==
  IF outcome = "wrote"
  THEN [ctx EXCEPT !.results = Append(@, [by |-> "processor",
                                          processor |-> name, path |-> node]),
                   !.data = @ \cup {name},
                   !.shared = @ \cup {node}]
  ELSE ctx

\* a counter advanced twice per attempt
NextStepTwice(s) == s + 2

\* current_step += 1 / step_counter[0] += 1
NextStep(s) == s + 1

\* a fault that leaves the loop over the list
RemainingUnlessRaised(todo, outcome) ==
  IF outcome = "raised" THEN <<>> ELSE Tail(todo)

\* the entries of the list still to run after an attempt: the except
\* clause (lines 344-352) swallows the fault and the loop goes on
Remaining(todo, outcome) == Tail(todo)

\* an unregistered name that is noted but given no outcome
AuditedWithoutUnregistered(info, entry, outcome) ==
  [info EXCEPT
     !.names = Append(@, entry.name),
     !.configs = Append(@, entry.config),
     !.outcomes = CASE outcome \in {"returned", "wrote"} ->
                         Append(@, "succeed")
                    [] outcome = "raised" -> Append(@, "failed")
                    [] OTHER -> @,
     !.warnings = CASE outcome = "raised" ->
                         Append(@, <<entry.name, "exception">>)
                    [] outcome = "unregistered" ->
                         Append(@, <<entry.name, "unregistered">>)
                    [] OTHER -> @]

\* the audit record after one iteration of the loop, lines 332-358: a fault
\* and an unregistered name both append their message to metadata_info[4]
Audited(info, entry, outcome) ==
  [info EXCEPT
     !.names = Append(@, entry.name),
     !.configs = Append(@, entry.config),
     !.outcomes = Append(@, IF outcome \in {"returned", "wrote"}
                            THEN "succeed" ELSE "failed"),
     !.warnings = CASE outcome = "raised" ->
                         Append(@, <<entry.name, "exception">>)
                    [] outcome = "unregistered" ->
                         Append(@, <<entry.name, "unregistered">>)
                    [] OTHER -> @]

\* run, lines 115-116
TotalSteps(calls) ==
  (IF config.pre_process # None THEN 1 ELSE 0) + calls
  + (IF config.post_process # None THEN 1 ELSE 0)

\* what progress_callback and the write to the status log do in one call
\* of _call_progress: a sound sink takes every report, a faulty one may
\* raise in the callback, in the write, or in both
SinkOutcomes(s) ==
  IF s = "sound" THEN {[callback |-> "returned", log |-> "written"]}
  ELSE [callback : {"returned", "raised"}, log : {"written", "raised"}]

\* a _call_progress without its try blocks: the fault of a sink goes on to
\* the caller
_call_progress_unguarded(current, total, node, name, phase, o) ==
  [report |-> [current |-> current, total |-> total, node |-> node,
               name |-> name, phase |-> phase,
               delivered |-> o.callback = "returned",
               logged |-> o.callback = "returned" /\ o.log = "written"],
   raised |-> IF o.callback = "raised" \/ o.log = "raised"
              THEN "Exception" ELSE None]

\* BatchProcessor._call_progress(current, total, status): the callback
\* and the write to the status log each in a try block of their own, so
\* nothing is raised; `report` is the call as the history keeps it (its
\* status is current_status from here on)
_call_progress(current, total, node, name, phase, o) ==
  [report |-> [current |-> current, total |-> total, node |-> node,
               name |-> name, phase |-> phase,
               delivered |-> o.callback = "returned",
               logged |-> o.log = "written"],
   raised |-> None]

\* a run that does not look whether its root exists
root_unchecked(exists) == None

\* run, lines 101-103: if not root_path.exists(): raise FileNotFoundError
root_checked(exists) == IF ~exists THEN "FileNotFoundError" ELSE None

\* run, lines 97-119: the check of the root, the hooks' names and the dry
\* pass
RunStart ==
  /\ UNCHANGED <<storeVars, writerVars>>
  /\ pc = "idle"
  /\ IF root_checked(root_exists) # None
     THEN /\ pc' = "raised"
          /\ raised' = root_checked(root_exists)
          /\ UNCHANGED <<total_steps, step, root_path, started>>
     ELSE IF WalkRaises(config, tree)
     THEN /\ root_path' = [engine |-> Root, context |-> Root]
          /\ pc' = "raised"
          /\ raised' = "TypeError"
          /\ UNCHANGED <<total_steps, step, started>>
     ELSE /\ root_path' = [engine |-> Root, context |-> Root]
          /\ total_steps' =
               TotalSteps(_count_total_processor_calls(config, PROCESSORS,
                                                       tree))
          /\ step' = 0
          /\ started' = registry
          /\ pc' = "global_pre"
          /\ UNCHANGED raised
  /\ UNCHANGED <<tree, config, stack, context, worker, interrupted,
                 progress, invoked, seen, registry, sink, root_exists>>

\* a run that ends when the global pre hook did not return
WalkUnlessHookFailed(outcome, r) ==
  IF outcome # "returned" THEN "done"
  ELSE IF r.stack = <<>> THEN "global_post" ELSE "walk"

\* run, lines 128-143: the try around the hook swallows its fault, the else
\* branch only prints for an unregistered name, and the traversal starts
\* whatever the hook did
WalkAfterHook(outcome, r) ==
  IF r.stack = <<>> THEN "global_post" ELSE "walk"

\* run, lines 121-144: the global pre hook and the call of
\* _process_path_recursive on the root
GlobalPre ==
  /\ UNCHANGED <<storeVars, writerVars>>
  /\ pc = "global_pre"
  /\ IF config.pre_process = None
     THEN LET r == _process_path_recursive(<<Frame(Root)>>, context.metadata)
          IN  /\ stack' = r.stack
              /\ context' = [context EXCEPT !.metadata = r.metadata]
              /\ pc' = IF r.stack = <<>> THEN "global_post" ELSE "walk"
              /\ UNCHANGED <<step, progress, invoked, seen, raised>>
     ELSE \E o \in SinkOutcomes(sink) :
          LET cp == _call_progress(NextStep(step), total_steps, Root,
                                   config.pre_process, "global_pre", o)
          IN
          /\ step' = NextStep(step)
          /\ progress' = Append(progress, cp.report)
          /\ raised' = cp.raised
          /\ IF cp.raised # None
             THEN /\ pc' = "raised"
                  /\ UNCHANGED <<stack, context, invoked, seen>>
             ELSE
             /\ seen' = Polled
             /\ IF _is_cancelled
                THEN /\ pc' = "done"
                     /\ UNCHANGED <<stack, context, invoked>>
                ELSE LET outcome == IF config.pre_process \in PRE_PROCESSORS
                                    THEN HookBehaviour[config.pre_process]
                                    ELSE "unregistered"
                         ctx == Invoke(context, config.pre_process, Root,
                                       outcome)
                         r == _process_path_recursive(<<Frame(Root)>>,
                                                      ctx.metadata)
                     IN  /\ invoked' = Append(invoked,
                              [node |-> Root, phase |-> "global_pre",
                               bucket |-> "global_pre",
                               name |-> config.pre_process,
                               config |-> "config_pre", pos |-> 0,
                               callable |-> 0,
                               outcome |-> outcome,
                               audit |-> NewMetadataInfo])
                         /\ stack' = r.stack
                         /\ context' = [ctx EXCEPT !.metadata = r.metadata]
                         /\ pc' = WalkAfterHook(outcome, r)
  /\ UNCHANGED <<tree, config, total_steps, worker, interrupted, registry,
                 started, sink, root_exists, root_path>>

\* self._processors[proc_name], line 337: the callable bound to the name in
\* PROCESSORS at the moment of the invocation
Lookup(name) == registry[name]

\* _execute_processor_list_with_progress, one iteration of the loop at
\* lines 322-358: the poll, then the attempt on the next entry
ExecProc ==
  /\ UNCHANGED <<storeVars, writerVars>>
  /\ pc = "walk"
  /\ stack # <<>>
  /\ Top(stack).todo # <<>>
  /\ seen' = Polled
  /\ LET f == Top(stack)
         entry == Head(f.todo)
     IN
     IF _is_cancelled
     THEN LET r == _process_path_recursive(
                     ReplaceTop(stack, [f EXCEPT !.todo = <<>>]),
                     context.metadata)
          IN  /\ stack' = r.stack
              /\ context' = [context EXCEPT !.metadata = r.metadata]
              /\ pc' = IF r.stack = <<>> THEN "global_post" ELSE "walk"
              /\ UNCHANGED <<step, progress, invoked, raised>>
     ELSE \E o \in SinkOutcomes(sink) :
          LET cp == _call_progress(NextStep(step), total_steps, f.node,
                                   entry.name, f.stage, o)
              outcome == IF entry.name \in DOMAIN registry
                         THEN Behaviour[entry.name] ELSE "unregistered"
              ctx == Invoke(context, entry.name, f.node, outcome)
              info == Audited(get_metadata(ctx.metadata, f.node), entry,
                              outcome)
              r == _process_path_recursive(
                     ReplaceTop(stack,
                       [f EXCEPT !.todo = Remaining(f.todo, outcome)]),
                     set_metadata(ctx.metadata, f.node, info))
          IN  /\ step' = NextStep(step)
              /\ progress' = Append(progress, cp.report)
              /\ raised' = cp.raised
              /\ IF cp.raised # None
                 THEN /\ pc' = "raised"
                      /\ UNCHANGED <<stack, context, invoked>>
                 ELSE /\ invoked' = Append(invoked,
                           [node |-> f.node, phase |-> f.stage,
                            bucket |-> entry.bucket, name |-> entry.name,
                            config |-> entry.config, pos |-> entry.pos,
                            callable |-> IF entry.name \in DOMAIN registry
                                         THEN Lookup(entry.name) ELSE 0,
                            outcome |-> outcome,
                            audit |-> info])
                      /\ stack' = r.stack
                      /\ context' = [ctx EXCEPT !.metadata = r.metadata]
                      /\ pc' = IF r.stack = <<>> THEN "global_post"
                               ELSE "walk"
  /\ UNCHANGED <<tree, config, total_steps, worker, interrupted, registry,
                 started, sink, root_exists, root_path>>

\* _process_path_recursive, one iteration of the loop over the children,
\* lines 206-210: the poll, then the recursive call
NextChild ==
  /\ UNCHANGED <<storeVars, writerVars>>
  /\ pc = "walk"
  /\ stack # <<>>
  /\ Top(stack).kids # <<>>
  /\ seen' = Polled
  /\ LET f == Top(stack)
         r == IF _is_cancelled
              THEN _process_path_recursive(Pop(stack), context.metadata)
              ELSE _process_path_recursive(
                     Append(ReplaceTop(stack, [f EXCEPT !.kids = Tail(@)]),
                            Frame(Head(f.kids))),
                     context.metadata)
     IN  /\ stack' = r.stack
         /\ context' = [context EXCEPT !.metadata = r.metadata]
         /\ pc' = IF r.stack = <<>> THEN "global_post" ELSE "walk"
  /\ UNCHANGED <<tree, config, total_steps, step, worker, interrupted,
                 progress, invoked, registry, started, sink, root_exists,
                 root_path, raised>>

\* a global post hook that runs although cancellation was requested
RunsGlobalPostAnyway == config.post_process # None

\* run, line 147: `not self._is_cancelled() and global_post_name`
RunsGlobalPost == ~_is_cancelled /\ config.post_process # None

\* run, lines 146-161: the global post hook and the return
GlobalPost ==
  /\ UNCHANGED <<storeVars, writerVars>>
  /\ pc = "global_post"
  /\ seen' = Polled
  /\ IF RunsGlobalPost
     THEN \E o \in SinkOutcomes(sink) :
          LET cp == _call_progress(NextStep(step), total_steps, Root,
                                   config.post_process, "global_post", o)
              outcome == IF config.post_process \in POST_PROCESSORS
                         THEN HookBehaviour[config.post_process]
                         ELSE "unregistered"
          IN  /\ step' = NextStep(step)
              /\ progress' = Append(progress, cp.report)
              /\ raised' = cp.raised
              /\ IF cp.raised # None
                 THEN /\ pc' = "raised"
                      /\ UNCHANGED <<invoked, context>>
                 ELSE /\ pc' = "done"
                      /\ invoked' = Append(invoked,
                           [node |-> Root, phase |-> "global_post",
                            bucket |-> "global_post",
                            name |-> config.post_process,
                            config |-> "config_post", pos |-> 0,
                            callable |-> 0,
                            outcome |-> outcome,
                            audit |-> NewMetadataInfo])
                      /\ context' = Invoke(context, config.post_process,
                                           Root, outcome)
     ELSE /\ pc' = "done"
          /\ UNCHANGED <<step, progress, invoked, context, raised>>
  /\ UNCHANGED <<tree, config, stack, total_steps, worker, interrupted,
                 registry, started, sink, root_exists, root_path>>

\* BatchProcessorGUI._cancel on the host thread, while the worker runs:
\* thread.requestInterruption(); the request stays set for the whole run
Cancel ==
  /\ UNCHANGED <<storeVars, writerVars>>
  /\ worker # None
  /\ pc \in {"global_pre", "walk", "global_post"}
  /\ ~interrupted
  /\ interrupted' = TRUE
  /\ UNCHANGED <<tree, config, pc, stack, total_steps, step, context, worker,
                 progress, invoked, seen, registry, started, sink,
                 root_exists, root_path, raised>>

Next == RunStart \/ GlobalPre \/ ExecProc \/ NextChild \/ GlobalPost \/ Cancel

Spec == Init /\ [][Next]_vars

\* ------------------------------------------------------------------------
\* A run while the host thread reloads plugins
\* ------------------------------------------------------------------------
\* the decorator `processor` applied to a name that is registered already,
\* as by BatchProcessorGUI._load_plugins importing a plugin module again:
\* PROCESSORS[proc_name] = func binds the name to the new callable and
\* nothing is raised; the host thread does it before, during or after a run
Reregister ==
  /\ \E n \in DOMAIN registry :
       /\ registry[n] <= MaxReloads
       /\ registry' = [registry EXCEPT ![n] = @ + 1]
  /\ UNCHANGED <<tree, config, pc, stack, total_steps, step, context, worker,
                 interrupted, progress, invoked, seen, started, sink,
                 root_exists, root_path, raised>>
  /\ UNCHANGED <<storeVars, writerVars>>

\* the runs during which plugins are reloaded: the scenario and the
\* configuration that names p1 three times for one file
InitReload ==
  /\ StoreIdle
  /\ WriterIdle
  /\ EngineInit(RunTrees, {ScenarioConfig, RepeatConfig}, {"sound"})

NextReload == Next \/ Reregister

SpecReload == InitReload /\ [][NextReload]_vars

\* ------------------------------------------------------------------------
\* A run on a configuration with a malformed rule
\* ------------------------------------------------------------------------
\* the shapes of a malformed rule: {pattern: 5}; {pattern: {processors: 5}};
\* {pattern: {processors: [p1], priority: "high"}}
Shapes == {"not_a_mapping", "list_not_iterable", "priority_not_a_number"}

Malformed(pattern, shape) ==
  [Rule(pattern, 1, [pre_processors |-> <<>>, processors |-> <<"p1">>,
                     post_processors |-> <<>>])
     EXCEPT !.shape = shape]

\* a malformed rule for the .txt files beside a well-formed rule
MalformedConfigs ==
  {Config(<<Malformed(PatTxt, sh), Rule(p, 1, b)>>, None, None) :
     sh \in Shapes, p \in {PatStar, PatLog, PatDir}, b \in Bodies}

InitMalformed ==
  /\ StoreIdle
  /\ WriterIdle
  /\ EngineInit(RunTrees, MalformedConfigs, {"sound"})

SpecMalformed == InitMalformed /\ [][Next]_vars

\* ------------------------------------------------------------------------
\* A run with the injection of the built-in recorders configured
\* ------------------------------------------------------------------------
\* one rule for the entries directly below the root, or none; injection
\* enabled or not; as inline recorder p1 (which a rule may name already),
\* rec or the unregistered px; as persistence name p1 or px
RecorderConfigs ==
  {[Config(rules, None, None)
      EXCEPT !.enable_builtin_recorders = enabled,
             !.builtin_recorders = [record |-> record, persist |-> persist]] :
     rules \in {<<>>} \cup {<<Rule(PatStar, 1, b)>> : b \in Bodies},
     enabled \in BOOLEAN,
     record \in {"p1", "rec", "px"},
     persist \in {"p1", "px"}}

InitRecorders ==
  /\ StoreIdle
  /\ WriterIdle
  /\ EngineInit(RunTrees, RecorderConfigs, {"sound"})

SpecRecorders == InitRecorders /\ [][Next]_vars

\* ------------------------------------------------------------------------
\* A run whose progress callback and status log can fail
\* ------------------------------------------------------------------------
\* a configuration with both global hooks and one rule for every entry
\* directly below the root
HookedConfig ==
  Config(<<Rule(PatStar, 1, [pre_processors |-> <<>>,
                             processors |-> <<"p1">>,
                             post_processors |-> <<>>])>>, "init", "final")

InitSink ==
  /\ StoreIdle
  /\ WriterIdle
  /\ EngineInit(RunTrees, {ScenarioConfig, HookedConfig}, {"faulty"})

SpecSink == InitSink /\ [][Next]_vars

\* ------------------------------------------------------------------------
\* A run whose global hooks can raise or be unregistered
\* ------------------------------------------------------------------------
\* no rule, one rule for every entry directly below the root, or the rules
\* of the scenario; each hook absent, returning, raising or unregistered
HookNames == [pre  |-> {None, "init", "bad_init", "hx"},
              post |-> {None, "final", "bad_final", "hx"}]

HookConfigs ==
  {Config(rules, pre, post) :
     rules \in {<<>>, HookedConfig.rules, ScenarioConfig.rules},
     pre \in HookNames.pre, post \in HookNames.post}

InitHooks ==
  /\ StoreIdle
  /\ WriterIdle
  /\ EngineInit(RunTrees, HookConfigs, {"sound"})

SpecHooks == InitHooks /\ [][Next]_vars

\* ------------------------------------------------------------------------
\* The nested-dict helpers applied, call after call, to one dict
\* ------------------------------------------------------------------------
\* no run of the engine
EngineIdle ==
  /\ tree = {}
  /\ config = Config(<<>>, None, None)
  /\ pc = "idle"
  /\ stack = <<>>
  /\ total_steps = 0
  /\ step = 0
  /\ context = EmptyContext
  /\ worker = None
  /\ interrupted = FALSE
  /\ progress = <<>>
  /\ invoked = <<>>
  /\ seen = [polled |-> FALSE, context |-> EmptyContext, attempts |-> 0]
  /\ registry = InitialRegistry
  /\ started = InitialRegistry
  /\ sink = "sound"
  /\ root_exists = FALSE
  /\ root_path = NoRootPath
  /\ raised = None

InitStore == EngineIdle /\ StoreIdle /\ WriterIdle

\* what the history keeps of a call
Called(op, keys, value, r) ==
  [op |-> op, keys |-> keys, value |-> value, before |-> store,
   ret |-> r.ret, raised |-> r.raised]

\* context.set_shared(keys, value)
SetData ==
  \E keys \in KeyArgs, value \in Values :
     LET r == set_dict_data(store, keys, value)
     IN  /\ store' = r.d
         /\ call' = Called("set", keys, value, r)
         /\ UNCHANGED <<engineVars, writerVars>>

\* context.get_shared(keys, default)
GetData ==
  \E keys \in KeyArgs, default \in Values :
     LET r == get_dict_data(store, keys, default)
     IN  /\ store' = r.d
         /\ call' = Called("get", keys, default, r)
         /\ UNCHANGED <<engineVars, writerVars>>

\* context.setdefault_shared(keys, default)
SetdefaultData ==
  \E keys \in KeyArgs, default \in Values :
     LET r == setdefault_dict_data(store, keys, default)
     IN  /\ store' = r.d
         /\ call' = Called("setdefault", keys, default, r)
         /\ UNCHANGED <<engineVars, writerVars>>

\* context.delete_shared(keys)
DeleteShared ==
  \E keys \in KeyArgs :
     LET r == delete_shared(store, keys)
     IN  /\ store' = r.d
         /\ call' = Called("delete_shared", keys, PyNone, r)
         /\ UNCHANGED <<engineVars, writerVars>>

\* nested_dicts.delete_dict_data(d, keys)
DeleteData ==
  \E keys \in KeyArgs :
     LET r == delete_dict_data(store, keys)
     IN  /\ store' = r.d
         /\ call' = Called("delete_dict_data", keys, PyNone, r)
         /\ UNCHANGED <<engineVars, writerVars>>

NextStore ==
  SetData \/ GetData \/ SetdefaultData \/ DeleteShared \/ DeleteData

SpecStore == InitStore /\ [][NextStore]_vars

\* ------------------------------------------------------------------------
\* The setters of the context called with single keys of one and of two
\* characters, and with list paths over the same names
\* ------------------------------------------------------------------------
\* the single keys 'a', 'b' and 'ab'
SingleKeys ==
  {[list |-> FALSE, segs |-> c] : c \in {<<"a">>, <<"b">>, <<"a", "b">>}}

\* the list paths ['a'], ['b'], ['ab'] and ['a', 'b']
PathKeys ==
  {[list |-> TRUE, segs |-> p] :
     p \in {<<"a">>, <<"b">>, <<"ab">>, <<"a", "b">>}}

InitKeys == EngineIdle /\ StoreIdle /\ WriterIdle

\* context.set_data / set_shared / set_metadata (keys, value) with a single
\* key
SetKey ==
  \E keys \in SingleKeys, value \in Values :
     LET r == set_dict_data(store, keys, value)
     IN  /\ store' = r.d
         /\ call' = Called("set_key", keys, value, r)
         /\ UNCHANGED <<engineVars, writerVars>>

\* the same setters with a list path
SetPath ==
  \E keys \in PathKeys, value \in Values :
     LET r == set_dict_data(store, keys, value)
     IN  /\ store' = r.d
         /\ call' = Called("set_path", keys, value, r)
         /\ UNCHANGED <<engineVars, writerVars>>

NextKeys == SetKey \/ SetPath

SpecKeys == InitKeys /\ [][NextKeys]_vars

\* ------------------------------------------------------------------------
\* The background writer of the history (processors/builtin_recorders.py):
\* a caller that hands records to enqueue_persist and then calls
\* flush_history_queue, and the thread of SQLiteBatchWriter._loop.  Time is
\* not modelled: whether an interval has elapsed is a choice.
\* ------------------------------------------------------------------------
\* SQLiteBatchWriter.__init__, the default of batch_size
batch_size == 200

\* _get_writer_for_dir creates and starts the writer of a log_dir at the
\* first enqueue_persist
HasWriter == enqueued # <<>>

\* the records: the n-th one handed over, with a value json.dumps can or
\* cannot serialise
Record(n, ok) == [id |-> n, serializable |-> ok]

\* SQLiteBatchWriter._flush(records) on the rows of the table: one
\* transaction for the whole batch; if json.dumps or sqlite3 raises, the
\* transaction is rolled back and the exception is dropped
_flush(rows, records, db) ==
  IF records = <<>> THEN rows
  ELSE IF db = "commits" /\ \A i \in DOMAIN records : records[i].serializable
       THEN rows \o records
       ELSE rows

\* _loop, lines 155-162
should_flush(buffer, elapsed) ==
  \/ Len(buffer) >= batch_size
  \/ buffer # <<>> /\ elapsed
  \/ _shutdown /\ buffer # <<>>

InitWriter == EngineIdle /\ StoreIdle /\ WriterIdle

\* enqueue_persist(record, log_dir): w.enqueue(record)
Enqueue ==
  /\ cpc = "enqueue"
  /\ Len(enqueued) < MaxRecords
  /\ \E ok \in BOOLEAN :
       LET record == Record(Len(enqueued) + 1, ok)
       IN  /\ wqueue' = Append(wqueue, record)
           /\ enqueued' = Append(enqueued, record)
  /\ UNCHANGED <<wbuffer, table, wpc, cpc, flushed, _shutdown>>
  /\ UNCHANGED <<engineVars, storeVars>>

\* flush_history_queue(log_dir), lines 219-223: True at once if the
\* log_dir has no writer, else w.flush(timeout)
FlushCall ==
  /\ cpc = "enqueue"
  /\ IF HasWriter
     THEN cpc' = "poll" /\ UNCHANGED flushed
     ELSE cpc' = "returned" /\ flushed' = "True"
  /\ UNCHANGED <<wqueue, wbuffer, table, wpc, enqueued, _shutdown>>
  /\ UNCHANGED <<engineVars, storeVars>>

\* SQLiteBatchWriter.flush, lines 177-180: the loop ends when the queue is
\* seen empty; while it is not, the timeout may run out
FlushPoll ==
  /\ cpc = "poll"
  /\ IF wqueue = <<>>
     THEN cpc' = "sleep" /\ UNCHANGED flushed
     ELSE cpc' = "returned" /\ flushed' = "False"
  /\ UNCHANGED <<wqueue, wbuffer, table, wpc, enqueued, _shutdown>>
  /\ UNCHANGED <<engineVars, storeVars>>

\* SQLiteBatchWriter.flush, lines 181-183: after the sleep of
\* flush_interval + 0.05, return True
FlushReturn ==
  /\ cpc = "sleep"
  /\ cpc' = "returned"
  /\ flushed' = "True"
  /\ UNCHANGED <<wqueue, wbuffer, table, wpc, enqueued, _shutdown>>
  /\ UNCHANGED <<engineVars, storeVars>>

\* _loop, lines 149-151: an item is taken from the queue into the buffer
WriterGet ==
  /\ HasWriter
  /\ wpc = "get"
  /\ wqueue # <<>>
  /\ wbuffer' = Append(wbuffer, Head(wqueue))
  /\ wqueue' = Tail(wqueue)
  /\ wpc' = "decide"
  /\ UNCHANGED <<table, cpc, enqueued, flushed, _shutdown>>
  /\ UNCHANGED <<engineVars, storeVars>>

\* _loop, lines 152-153: queue.Empty after flush_interval
WriterTimeout ==
  /\ HasWriter
  /\ wpc = "get"
  /\ wqueue = <<>>
  /\ wpc' = "decide"
  /\ UNCHANGED <<wqueue, wbuffer, table, cpc, enqueued, flushed, _shutdown>>
  /\ UNCHANGED <<engineVars, storeVars>>

\* _loop, lines 155-173: the decision, _flush with the buffer cleared
\* whatever _flush did, and the end of the thread once shutdown was asked
\* for and the queue and the buffer are empty
WriterDecide ==
  /\ wpc = "decide"
  /\ \E elapsed \in BOOLEAN, db \in {"commits", "fails"} :
       IF should_flush(wbuffer, elapsed)
       THEN /\ table' = _flush(table, wbuffer, db)
            /\ wbuffer' = <<>>
       ELSE UNCHANGED <<table, wbuffer>>
  /\ wpc' = IF _shutdown /\ wqueue = <<>> /\ wbuffer' = <<>>
            THEN "exited" ELSE "get"
  /\ UNCHANGED <<wqueue, cpc, enqueued, flushed, _shutdown>>
  /\ UNCHANGED <<engineVars, storeVars>>

\* shutdown_writer(log_dir): w.shutdown sets the flag and waits for the
\* thread; the writer stays in _writers
Shutdown ==
  /\ HasWriter
  /\ cpc = "enqueue"
  /\ ~_shutdown
  /\ _shutdown' = TRUE
  /\ UNCHANGED <<wqueue, wbuffer, table, wpc, cpc, enqueued, flushed>>
  /\ UNCHANGED <<engineVars, storeVars>>

NextWriter ==
  \/ Enqueue
  \/ FlushCall
  \/ FlushPoll
  \/ FlushReturn
  \/ WriterGet
  \/ WriterTimeout
  \/ WriterDecide
  \/ Shutdown

SpecWriter == InitWriter /\ [][NextWriter]_vars

\* an iteration of _loop that writes its batch: the interval runs out and
\* the transaction commits
WriterWrites == WriterDecide /\ Len(table') > Len(table)

\* the writer thread is scheduled while it lives, and a batch that can be
\* written is not refused for ever
SpecWriterLive ==
  /\ SpecWriter
  /\ WF_vars(WriterGet)
  /\ WF_vars(WriterTimeout)
  /\ WF_vars(WriterDecide)
  /\ SF_vars(WriterWrites)

\* ------------------------------------------------------------------------
\* Properties
\* ------------------------------------------------------------------------
Done == pc = "done"

\* the attempts on the processors of a node's buckets (not the global hooks)
PerNode(e) == e.bucket \in {"pre", "inline", "post"}

\* the rule an attempt's entry came from, by the rule's own config
RuleOf(e) == CHOOSE k \in 1..Len(config.rules) :
               config.rules[k].config = e.config
PriorityOf(e) == config.rules[RuleOf(e)].priority
PosInRule(e) == e.pos

Strip(entries) ==
  [i \in 1..Len(entries) |->
     [node |-> entries[i].node, bucket |-> entries[i].bucket,
      name |-> entries[i].name, config |-> entries[i].config]]

OnNode(node, entries) ==
  [i \in 1..Len(entries) |->
     [node |-> node, bucket |-> entries[i].bucket, name |-> entries[i].name,
      config |-> entries[i].config]]

\* the attempts made so far
Attempts == Strip(invoked)

\* the attempts a complete traversal owes to the nodes of `todo` and their
\* descendants: for each node its pre bucket, its inline bucket, its
\* children in sorted order, its post bucket
RECURSIVE PlanOf(_)
PlanOf(todo) ==
  IF todo = <<>> THEN <<>>
  ELSE LET n == Head(todo)
           rules == _get_processors_for_path(config, PROCESSORS, n, is_dir(n))
           kids == IF is_dir(n) THEN Children(tree, n) ELSE <<>>
       IN  OnNode(n, rules["pre"]) \o OnNode(n, rules["inline"])
           \o PlanOf(kids) \o OnNode(n, rules["post"]) \o PlanOf(Tail(todo))

HookPlan(name, bucket, cfg) ==
  IF name = None THEN <<>>
  ELSE <<[node |-> Root, bucket |-> bucket, name |-> name, config |-> cfg]>>

Plan ==
  HookPlan(config.pre_process, "global_pre", "config_pre")
  \o PlanOf(<<Root>>)
  \o HookPlan(config.post_process, "global_post", "config_post")

IsBelow(n, d) == Len(n) > Len(d) /\ SubSeq(n, 1, Len(d)) = d

\* C1: in a run during which cancellation is never requested, total_steps
\* (the dry pass plus one per configured global hook) equals the number of
\* invocation attempts the live pass makes, one per progress report.
C1_TotalStepsIsAttempts ==
  (Done /\ ~interrupted) =>
     /\ total_steps = Len(invoked)
     /\ Len(progress) = Len(invoked)

C1_Witness ==
  /\ Done /\ ~interrupted
  /\ config.pre_process # None /\ config.post_process # None
  /\ Len(invoked) = 6 /\ total_steps = 6
  /\ \E i \in 1..Len(invoked) : Len(invoked[i].node) = 2

\* C2: in a cancellation-free run the values of `current` passed to the
\* progress sink are 1, 2, ..., total_steps in that order: none skipped,
\* none repeated, none above total_steps, the last equal to total_steps.
C2_ProgressCountsUp ==
  ~interrupted =>
     /\ \A i \in 1..Len(progress) :
          /\ progress[i].current = i
          /\ progress[i].current <= progress[i].total
          /\ progress[i].total = total_steps
     /\ step = Len(progress)
     /\ Done => step = total_steps

C2_Witness ==
  /\ Done /\ ~interrupted
  /\ Len(progress) = 5
  /\ progress[5].current = 5 /\ total_steps = 5
  /\ \E i \in 1..Len(invoked) : invoked[i].outcome = "raised"
  /\ \E i \in 1..Len(invoked) : invoked[i].outcome = "unregistered"
  /\ \E i \in 1..Len(invoked) : invoked[i].bucket = "global_pre"

\* a bucket lists entries of equal priority in the declaration order of
\* their rules and, within one rule, in list order
InDeclarationOrder(entries) ==
  \A i, j \in 1..Len(entries) :
     (i < j /\ PriorityOf(entries[i]) = PriorityOf(entries[j])) =>
        \/ RuleOf(entries[i]) < RuleOf(entries[j])
        \/ /\ RuleOf(entries[i]) = RuleOf(entries[j])
           /\ PosInRule(entries[i]) < PosInRule(entries[j])

\* C3: two rules matching the same node and contributing to the same
\* bucket with equal priority: the bucket returned by
\* _get_processors_for_path lists their processors in the rules'
\* declaration order (within one rule, in list order), and they are
\* invoked in that order.
C3_EqualPriorityKeepsDeclarationOrder ==
  /\ pc = "idle" =>
       \A n \in tree \cup {Root} : \A b \in {"pre", "inline", "post"} :
          InDeclarationOrder(
            _get_processors_for_path(config, PROCESSORS, n, is_dir(n))[b])
  /\ \A i, j \in 1..Len(invoked) :
       (/\ i < j
        /\ PerNode(invoked[i]) /\ PerNode(invoked[j])
        /\ invoked[i].node = invoked[j].node
        /\ invoked[i].bucket = invoked[j].bucket
        /\ PriorityOf(invoked[i]) = PriorityOf(invoked[j])) =>
          \/ RuleOf(invoked[i]) < RuleOf(invoked[j])
          \/ /\ RuleOf(invoked[i]) = RuleOf(invoked[j])
             /\ PosInRule(invoked[i]) < PosInRule(invoked[j])

C3_Witness ==
  \E i \in 1..Len(invoked) :
     /\ i + 2 <= Len(invoked)
     /\ PerNode(invoked[i])
     /\ \A k \in {i + 1, i + 2} :
          /\ invoked[k].node = invoked[i].node
          /\ invoked[k].bucket = invoked[i].bucket
          /\ PriorityOf(invoked[k]) = PriorityOf(invoked[i])
     /\ RuleOf(invoked[i]) = 1 /\ RuleOf(invoked[i + 1]) = 1
     /\ RuleOf(invoked[i + 2]) = 2

\* C4 as stated: two rules with priorities 10 and 1 matching the same node:
\* every processor of the priority-10 rule, under any of its three lists, is
\* invoked on that node before any processor of the priority-1 rule.
C4_Original ==
  \A i, j \in 1..Len(invoked) :
     (/\ PerNode(invoked[i]) /\ PerNode(invoked[j])
      /\ invoked[i].node = invoked[j].node
      /\ PriorityOf(invoked[i]) = 10
      /\ PriorityOf(invoked[j]) = 1) => i < j

\* C4 as amended: two rules with priorities 10 and 1 matching the same
\* node: within each bucket (pre, inline, post) every processor of the
\* priority-10 rule is invoked on that node before any processor the
\* priority-1 rule contributed to the same bucket.
C4_HigherPriorityFirstWithinBucket ==
  \A i, j \in 1..Len(invoked) :
     (/\ PerNode(invoked[i]) /\ PerNode(invoked[j])
      /\ invoked[i].node = invoked[j].node
      /\ invoked[i].bucket = invoked[j].bucket
      /\ PriorityOf(invoked[i]) = 10
      /\ PriorityOf(invoked[j]) = 1) => i < j

C4_Witness ==
  \E i, j \in 1..Len(invoked) :
     /\ i < j
     /\ PerNode(invoked[i]) /\ PerNode(invoked[j])
     /\ invoked[i].node = invoked[j].node
     /\ invoked[i].bucket = invoked[j].bucket
     /\ PriorityOf(invoked[i]) = 10 /\ RuleOf(invoked[i]) = 2
     /\ PriorityOf(invoked[j]) = 1 /\ RuleOf(invoked[j]) = 1

\* C5: in a cancellation-free run the post bucket of a directory D starts
\* only when every processor (pre, inline, post) of every descendant of D
\* has been attempted: the attempts just before it are the whole plan of
\* D's children, and no attempt on a descendant comes later.
C5_PostAfterDescendants ==
  (Done /\ ~interrupted) =>
    \A i \in 1..Len(invoked) :
       (/\ invoked[i].bucket = "post"
        /\ (i = 1 \/ invoked[i - 1].node # invoked[i].node
                  \/ invoked[i - 1].bucket # "post")) =>
          LET d == invoked[i].node
              below == PlanOf(IF is_dir(d) THEN Children(tree, d) ELSE <<>>)
          IN  /\ Len(below) < i
              /\ SubSeq(Attempts, i - Len(below), i - 1) = below
              /\ \A j \in 1..Len(invoked) :
                   IsBelow(invoked[j].node, d) => j < i

\* D = d holding F = d/f.txt: F's inline processor, then D's post bucket
C5_Witness ==
  /\ Done /\ ~interrupted
  /\ \E i \in 1..Len(invoked) :
       /\ i < Len(invoked)
       /\ invoked[i].node = <<"d", "f.txt">>
       /\ invoked[i].bucket = "inline"
       /\ invoked[i + 1].node = <<"d">>
       /\ invoked[i + 1].bucket = "post"

IsPrefix(s, t) == Len(s) <= Len(t) /\ SubSeq(t, 1, Len(s)) = s

Last(s) == s[Len(s)]

\* C6: once _is_cancelled has returned True during a run, no further
\* per-node processor or global hook invocation starts, and every entry
\* that was in context.results before is still there, unchanged and in the
\* same order.
C6_NothingStartsAfterCancelSeen ==
  seen.polled =>
     /\ Len(invoked) = seen.attempts
     /\ IsPrefix(seen.context.results, context.results)

C6_Witness ==
  /\ Done /\ seen.polled
  /\ Len(seen.context.results) = 1
  /\ context.results = seen.context.results
  /\ Len(invoked) + 2 < total_steps
  /\ config.post_process # None

\* C7 as stated: once _is_cancelled has returned True, run makes no further
\* change to the context: data, shared, results and metadata (the audit
\* records already written included) stay exactly as they were.
C7_Original == seen.polled => context = seen.context

\* C8: a processor that raises is marked 'failed' in the audit record, and
\* every remaining entry of the bucket, the node's later buckets and the
\* processors of all later nodes are still attempted, in the order of a
\* fault-free traversal; run gets to its return.
C8_FaultDoesNotStopTheRun ==
  /\ \A i \in 1..Len(invoked) :
       (PerNode(invoked[i]) /\ invoked[i].outcome = "raised") =>
          /\ Last(invoked[i].audit.names) = invoked[i].name
          /\ Last(invoked[i].audit.outcomes) = "failed"
          /\ Len(invoked[i].audit.outcomes) = Len(invoked[i].audit.names)
  /\ (Done /\ ~interrupted) => Attempts = Plan

C8_Witness ==
  /\ Done /\ ~interrupted
  /\ \E i \in 1..Len(invoked) :
       /\ i + 1 < Len(invoked)
       /\ invoked[i].outcome = "raised"
       /\ invoked[i + 1].node = invoked[i].node
       /\ invoked[i + 1].bucket = invoked[i].bucket
       /\ invoked[Len(invoked)].node # invoked[i].node

\* C9: a bucket entry whose name is not registered is recorded with
\* outcome 'failed' in the node's audit record and counts as one step; the
\* entries after it in the bucket and all later nodes are still attempted.
C9_UnregisteredIsAFailedStep ==
  /\ \A i \in 1..Len(invoked) :
       (PerNode(invoked[i]) /\ invoked[i].outcome = "unregistered") =>
          /\ Last(invoked[i].audit.names) = invoked[i].name
          /\ Len(invoked[i].audit.outcomes) = Len(invoked[i].audit.names)
          /\ Last(invoked[i].audit.outcomes) = "failed"
          /\ progress[i].name = invoked[i].name
          /\ progress[i].current
               = (IF i = 1 THEN 0 ELSE progress[i - 1].current) + 1
  /\ (Done /\ ~interrupted) =>
       \A i \in 1..Len(invoked) :
          invoked[i].outcome = "unregistered" =>
             /\ Len(invoked) = Len(Plan)
             /\ \A k \in (i + 1)..Len(Plan) : Attempts[k] = Plan[k]

C9_Witness ==
  /\ Done /\ ~interrupted
  /\ \E i \in 1..Len(invoked) :
       /\ i + 1 < Len(invoked)
       /\ invoked[i].outcome = "unregistered"
       /\ invoked[i + 1].node = invoked[i].node
       /\ invoked[i + 1].bucket = invoked[i].bucket
       /\ invoked[Len(invoked)].node # invoked[i].node

\* the entries of context.results that no processor wrote itself
EngineEntries ==
  Len(context.results)
  - Cardinality({i \in 1..Len(invoked) : invoked[i].outcome = "wrote"})

\* C10 as stated: for every invocation attempt on a registered processor
\* the engine appends exactly one ResultEntry to context.results; so after
\* a cancellation-free run of the scenario (a.txt and b.log, "*.txt" ->
\* p1 with priority 5, "*.log" -> p2 with priority 1) results holds exactly
\* two entries, p1's before p2's, and total_steps is 2.
C10_Original ==
  (Done /\ ~interrupted) =>
     /\ EngineEntries
          = Cardinality({i \in 1..Len(invoked) :
                           PerNode(invoked[i])
                           /\ invoked[i].name \in PROCESSORS})
     /\ (config = ScenarioConfig /\ tree = {<<"a.txt">>, <<"b.log">>}) =>
           /\ Len(context.results) = 2
           /\ context.results[1].processor = "p1"
           /\ context.results[2].processor = "p2"
           /\ total_steps = 2

Buckets == {"pre", "inline", "post"}

Resolved(n) == _get_processors_for_path(config, PROCESSORS, n, is_dir(n))

Matching(n) ==
  {r \in 1..Len(config.rules) :
     _match_rule(n, config.rules[r].pattern, is_dir(n))}

Occurrences(lst, nm) == Cardinality({k \in 1..Len(lst) : lst[k] = nm})

\* the entries of `got` that carry this name and this config
Copies(got, nm, cfg) ==
  Cardinality({i \in 1..Len(got) : got[i].name = nm /\ got[i].config = cfg})

\* C11: rule resolution does not deduplicate: the bucket of a node holds one
\* entry for every entry of the bucket's list in every matching rule, so a
\* name listed k times (by k rules, or k times in one rule's list) is k
\* times in the bucket, each time with its rule's config, and in a
\* cancellation-free run it is invoked on the node that many times.
C11_NoDeduplication ==
  /\ pc = "idle" =>
       \A n \in tree \cup {Root} : \A b \in Buckets :
          LET got == Resolved(n)[b]
          IN  /\ Len(got) =
                   Cardinality(UNION {
                     {<<r, k>> : k \in 1..Len(RuleList(config.rules[r], b))} :
                     r \in Matching(n)})
              /\ \A r \in Matching(n) :
                   LET lst == RuleList(config.rules[r], b)
                   IN  \A k \in 1..Len(lst) :
                          Copies(got, lst[k], config.rules[r].config)
                            = Occurrences(lst, lst[k])
  /\ (Done /\ ~interrupted) =>
       \A n \in tree \cup {Root} : \A b \in Buckets :
          LET got == Resolved(n)[b]
              ran == SelectSeq(invoked,
                       LAMBDA e : e.node = n /\ e.bucket = b)
          IN  /\ Len(ran) = Len(got)
              /\ \A i \in 1..Len(got) :
                   Copies(ran, got[i].name, got[i].config)
                     = Copies(got, got[i].name, got[i].config)

\* p1 three times in a row in the inline bucket of one node: twice with the
\* config of one rule, once with that of another
C11_Witness ==
  /\ Done /\ ~interrupted
  /\ \E i \in 1..Len(invoked) :
       /\ i + 2 <= Len(invoked)
       /\ \A k \in {i, i + 1, i + 2} :
            /\ invoked[k].node = invoked[i].node
            /\ invoked[k].bucket = "inline"
            /\ invoked[k].name = "p1"
       /\ invoked[i].config = invoked[i + 1].config
       /\ invoked[i + 2].config # invoked[i].config
       /\ Copies(Resolved(invoked[i].node)["inline"], "p1",
                 invoked[i].config) = 2

\* the path a keys argument stands for: a single key is a path of one
\* segment
PathOf(keys) == keys.segs

\* every segment of p exists along nested mappings of d
RECURSIVE Bound(_, _)
Bound(d, p) ==
  /\ p # <<>>
  /\ d.isdict
  /\ Head(p) \in DOMAIN d.items
  /\ Len(p) > 1 => Bound(d.items[Head(p)], Tail(p))

\* the value bound at p, for a bound path
RECURSIVE ValueAt(_, _)
ValueAt(d, p) ==
  IF Len(p) = 1 THEN d.items[p[1]] ELSE ValueAt(d.items[Head(p)], Tail(p))

Prefix(p, k) == SubSeq(p, 1, k)

\* an existing intermediate segment of p is bound to a non-mapping
Conflict(d, p) ==
  \E k \in 1..(Len(p) - 1) :
     Bound(d, Prefix(p, k)) /\ ~ValueAt(d, Prefix(p, k)).isdict

Other(v) == IF v = PyNone THEN mk_scalar("v") ELSE PyNone

\* C12: get with a list path never raises and never changes the store; it
\* returns the value bound at the path when every segment exists along
\* nested mappings, and the default when a segment is missing or a segment
\* on the way is bound to a non-mapping.
C12_GetNeverRaisesNorWrites ==
  (call.op = "get" /\ call.keys.list) =>
     /\ call.raised = None
     /\ store = call.before
     /\ call.ret = IF Bound(call.before, PathOf(call.keys))
                  THEN ValueAt(call.before, PathOf(call.keys))
                  ELSE call.value

\* get(store, ['a','b'], d) with 'a' bound to a non-mapping
C12_Witness ==
  /\ call.op = "get" /\ call.keys.list
  /\ PathOf(call.keys) = <<"a", "b">>
  /\ has(call.before, "a") /\ call.before.items["a"] = PyNone
  /\ call.value = mk_scalar("v")
  /\ call.ret = call.value

\* C13: set with a non-empty list path raises TypeError exactly when an
\* existing intermediate segment is bound to a non-mapping; otherwise every
\* intermediate segment is a mapping afterwards, the value is bound at the
\* leaf and a following get of the path returns it.
C13_SetBindsOrTypeError ==
  (call.op = "set" /\ call.keys.list /\ PathOf(call.keys) # <<>>) =>
     LET p == PathOf(call.keys)
     IN  /\ call.raised = IF Conflict(call.before, p) THEN "TypeError"
                          ELSE None
         /\ call.raised = None =>
              /\ \A k \in 1..(Len(p) - 1) :
                    Bound(store, Prefix(p, k))
                    /\ ValueAt(store, Prefix(p, k)).isdict
              /\ Bound(store, p) /\ ValueAt(store, p) = call.value
              /\ get_dict_data(store, call.keys, Other(call.value)).ret
                   = call.value

\* set(store, ['a','b'], v) on a store without 'a': the mapping is created
C13_Witness ==
  /\ call.op = "set" /\ call.keys.list
  /\ PathOf(call.keys) = <<"a", "b">>
  /\ ~has(call.before, "a")
  /\ call.raised = None
  /\ store.items["a"].items["b"] = call.value

\* C14 as stated: setdefault never raises, whatever the store, the path and
\* the default, a path through a non-mapping included: it returns the
\* existing value and leaves the store unchanged when the path is present,
\* and otherwise binds the default at the path and returns it.
C14_Original ==
  call.op = "setdefault" =>
     LET p == PathOf(call.keys)
     IN  /\ call.raised = None
         /\ Bound(call.before, p) =>
              /\ call.ret = ValueAt(call.before, p)
              /\ store = call.before
         /\ ~Bound(call.before, p) =>
              /\ call.ret = call.value
              /\ (p # <<>> /\ ~Conflict(call.before, p)) =>
                    Bound(store, p) /\ ValueAt(store, p) = call.value

\* the dict without the leaf at p and without the mappings on p that the
\* removal left empty
RECURSIVE Without(_, _)
Without(d, p) ==
  IF Len(p) = 1 THEN pop(d, p[1])
  ELSE LET c == Without(d.items[Head(p)], Tail(p))
       IN  IF is_empty(c) THEN pop(d, Head(p)) ELSE bind(d, Head(p), c)

\* C15 as stated: delete_shared with a list path removes the leaf if
\* present, then every intermediate mapping the removal left empty, and
\* returns whether anything was removed; so deleting ['a','c'] from
\* {'a': {'c': x}} (what set ['a','b'], set ['a','c'], delete ['a','b']
\* leave) gives a store without 'a'.
C15_Original ==
  (call.op = "delete_shared" /\ call.keys.list) =>
     LET p == PathOf(call.keys)
     IN  /\ call.ret = IF Bound(call.before, p) THEN PyTrue ELSE PyFalse
         /\ store = IF Bound(call.before, p) THEN Without(call.before, p)
                    ELSE call.before
         /\ (/\ p = <<"a", "c">>
             /\ Bound(call.before, p)
             /\ DOMAIN call.before.items["a"].items = {"c"}) =>
               ~has(store, "a")

\* C16 as stated: delete_dict_data returns True exactly when the path (a
\* list or a single key) was bound, whatever it was bound to, and False
\* otherwise with d unchanged; on True the leaf and every ancestor mapping
\* left empty are removed and everything else stays.
C16_Original ==
  call.op = "delete_dict_data" =>
     LET p == PathOf(call.keys)
     IN  IF Bound(call.before, p)
         THEN call.ret = PyTrue /\ store = Without(call.before, p)
         ELSE call.ret = PyFalse /\ store = call.before


C18_MissingRootRaisesFirst ==
  ~root_exists =>
    /\ pc \in {"idle", "raised"}
    /\ pc = "raised" => raised = "FileNotFoundError"
    /\ invoked = <<>>
    /\ progress = <<>>
    /\ step = 0
    /\ context = EmptyContext
    /\ root_path = NoRootPath

\* run was called on a root that does not exist and has raised, with a
\* configuration whose rules and hooks would have had work to do
C18_Witness ==
  /\ ~root_exists
  /\ pc = "raised"
  /\ raised = "FileNotFoundError"
  /\ config.pre_process # None
  /\ config.rules # <<>>

\* C19: a failure of the progress callback or of the write of the status
\* line never leaves _call_progress and never changes the run: run raises
\* nothing, every report carries the next step number, every report is
\* followed by its invocation, and a run that is not cancelled makes the
\* attempts of the plan, in its order, as a run with a sound sink does.
C19_SinkFailuresAreContained ==
  root_exists =>
    /\ pc # "raised"
    /\ raised = None
    /\ Len(progress) = step
    /\ \A i \in DOMAIN progress : progress[i].current = i
    /\ ~interrupted =>
         /\ Len(invoked) = Len(progress)
         /\ \A i \in DOMAIN invoked :
              /\ invoked[i].name = progress[i].name
              /\ invoked[i].node = progress[i].node
              /\ invoked[i].phase = progress[i].phase
    /\ (Done /\ ~interrupted) => Attempts = Plan

\* a run with both hooks has finished although the callback failed for one
\* report and the write of the status line for another
C19_Witness ==
  /\ Done
  /\ ~interrupted
  /\ sink = "faulty"
  /\ Len(invoked) >= 4
  /\ \E i, j \in DOMAIN progress :
       /\ ~progress[i].delivered
       /\ progress[i].logged
       /\ progress[j].delivered
       /\ ~progress[j].logged
  /\ \E i \in DOMAIN progress :
       ~progress[i].delivered /\ ~progress[i].logged

\* C20: if flush_history_queue(log_dir) returns True, every record handed
\* to enqueue_persist for the log_dir before the call is a row of
\* processed_history, exactly once each, under every interleaving of the
\* caller with the writer thread.
C20_Original ==
  flushed = "True" =>
    /\ Len(table) = Len(enqueued)
    /\ \A i \in DOMAIN enqueued :
         Cardinality({j \in DOMAIN table : table[j] = enqueued[i]}) = 1

\* the attempts so far on the pre and inline buckets of node n
OnEntry(n) ==
  SelectSeq(Attempts,
            LAMBDA e : e.node = n /\ e.bucket \in {"pre", "inline"})

\* C21: for every node, the entries of the pre bucket are attempted before
\* any entry of the inline bucket of the node, whatever their priorities,
\* and both buckets are completed before any processor of a node below it
\* is attempted.
C21_PreThenInlineThenChildren ==
  /\ \A i \in DOMAIN invoked :
       invoked[i].bucket \in {"pre", "inline"} =>
         \A j \in 1..(i - 1) :
           /\ ~(/\ invoked[i].bucket = "pre"
                /\ invoked[j].bucket = "inline"
                /\ invoked[j].node = invoked[i].node)
           /\ ~(/\ PerNode(invoked[j])
                /\ IsBelow(invoked[j].node, invoked[i].node))
  /\ \A n \in tree \cup {Root} :
       (\E j \in DOMAIN invoked :
          PerNode(invoked[j]) /\ IsBelow(invoked[j].node, n)) =>
          LET rules == Resolved(n)
          IN  OnEntry(n) = OnNode(n, rules["pre"])
                           \o OnNode(n, rules["inline"])

\* a directory whose pre entry has a lower priority than its inline entry:
\* the pre entry was attempted first, then the inline entry, then a
\* processor of a node below the directory
C21_Witness ==
  \E i, j, k \in DOMAIN invoked :
    /\ i < j /\ j < k
    /\ invoked[i].node = invoked[j].node
    /\ invoked[i].bucket = "pre"
    /\ invoked[j].bucket = "inline"
    /\ PriorityOf(invoked[i]) < PriorityOf(invoked[j])
    /\ PerNode(invoked[k])
    /\ IsBelow(invoked[k].node, invoked[i].node)

\* C22: after a run, the sequence number (the fourth element) of every
\* audit record is an integer, strictly increasing across the nodes that
\* had a matched processor, in visiting order.
C22_Original ==
  Done =>
    /\ \A i \in DOMAIN context.metadata :
         context.metadata[i].info.order # None
    /\ \A i, j \in DOMAIN context.metadata :
         i < j => context.metadata[i].info.order
                    < context.metadata[j].info.order

\* the names attempted so far on node n, in attempt order
AttemptedOn(n) ==
  LET on == SelectSeq(invoked, LAMBDA e : PerNode(e) /\ e.node = n)
  IN  [i \in 1..Len(on) |-> on[i].name]

\* C23: the audit record of a node is append-only during the whole run:
\* what has been appended for the entry buckets is still there when the
\* post bucket runs, so the record lists every attempted processor of the
\* node, of all three phases, in attempt order.
C23_Original ==
  ~interrupted =>
    \A i \in DOMAIN context.metadata :
       /\ context.metadata[i].info.names
            = AttemptedOn(context.metadata[i].node)
       /\ Len(context.metadata[i].info.outcomes)
            = Len(context.metadata[i].info.names)
       /\ Len(context.metadata[i].info.configs)
            = Len(context.metadata[i].info.names)

\* C24: when a processor raises or its name is unregistered, the message
\* is appended to the errors list (the sixth element) of the node's audit
\* record and the warnings list (the fifth element) is left as it was.
C24_Original ==
  \A i \in DOMAIN invoked :
    (PerNode(invoked[i])
       /\ invoked[i].outcome \in {"raised", "unregistered"}) =>
      LET msg == <<invoked[i].name,
                   IF invoked[i].outcome = "raised" THEN "exception"
                   ELSE "unregistered">>
          audit == invoked[i].audit
      IN  /\ \E k \in DOMAIN audit.errors : audit.errors[k] = msg
          /\ \A k \in DOMAIN audit.warnings : audit.warnings[k] # msg

\* the nodes a malformed rule of the configuration is written for
Affected ==
  {n \in tree :
     \E k \in 1..Len(config.rules) :
        /\ config.rules[k].shape # "ok"
        /\ _match_rule(n, config.rules[k].pattern, is_dir(n))}

\* C25: a malformed rule never makes run raise: it is detected during the
\* resolution of the affected node only, a failed outcome is recorded for
\* that node, and the other rules and nodes are processed as if the
\* malformed rule were absent.
C25_Original ==
  root_exists =>
    /\ pc # "raised"
    /\ raised = None
    /\ (Done /\ ~interrupted) =>
         \A n \in Affected :
            \E i \in DOMAIN context.metadata :
               /\ context.metadata[i].node = n
               /\ \E k \in DOMAIN context.metadata[i].info.outcomes :
                    context.metadata[i].info.outcomes[k] = "failed"

\* the sorted contributions of the rules to a bucket of node n
Contributed(n, b) == Entries(sorted(Candidates(config.rules, n, is_dir(n), b)))

\* the bucket is the contributions followed by one entry for the name
EndsWithOnce(got, contributed, nm) ==
  /\ Len(got) = Len(contributed) + 1
  /\ SubSeq(got, 1, Len(contributed)) = contributed
  /\ got[Len(got)].name = nm
  /\ got[Len(got)].config = <<"{}">>
  /\ \A i \in 1..Len(contributed) : contributed[i].name # nm

\* C26: with the injection of the built-in recorders enabled, for every
\* resolved node the inline recorder is appended to the end of the inline
\* bucket exactly once if and only if it is registered and the bucket does
\* not name it yet, and likewise the persistence name for the post bucket;
\* otherwise the bucket is exactly the sorted contributions of the rules.
\* The pre bucket is never added to, and what was resolved is what runs.
C26_RecorderInjectedOnce ==
  /\ \A n \in tree \cup {Root} :
       LET record == config.builtin_recorders.record
           persist == config.builtin_recorders.persist
       IN
       /\ Resolved(n)["pre"] = Contributed(n, "pre")
       /\ IF /\ config.enable_builtin_recorders
             /\ record \in DOMAIN registry
             /\ \A i \in DOMAIN Contributed(n, "inline") :
                  Contributed(n, "inline")[i].name # record
          THEN EndsWithOnce(Resolved(n)["inline"], Contributed(n, "inline"),
                            record)
          ELSE Resolved(n)["inline"] = Contributed(n, "inline")
       /\ IF /\ config.enable_builtin_recorders
             /\ persist \in DOMAIN registry
             /\ \A i \in DOMAIN Contributed(n, "post") :
                  Contributed(n, "post")[i].name # persist
          THEN EndsWithOnce(Resolved(n)["post"], Contributed(n, "post"),
                            persist)
          ELSE Resolved(n)["post"] = Contributed(n, "post")
  /\ (Done /\ ~interrupted) => Attempts = Plan

\* a finished run with injection enabled in which the inline recorder rec
\* ran last in the inline bucket of a.txt, after the rule's own entries,
\* while the persistence name p1, named by the rule's post list already,
\* ran once
C26_Witness ==
  /\ Done /\ ~interrupted
  /\ config.enable_builtin_recorders
  /\ config.builtin_recorders = [record |-> "rec", persist |-> "p1"]
  /\ \E i \in DOMAIN invoked :
       /\ i > 1
       /\ invoked[i].node = <<"a.txt">>
       /\ invoked[i].name = "rec"
       /\ invoked[i].bucket = "inline"
       /\ invoked[i].config = <<"{}">>
       /\ invoked[i - 1].node = <<"a.txt">>
       /\ invoked[i - 1].bucket = "pre"
  /\ Cardinality({i \in DOMAIN invoked :
                    /\ invoked[i].node = <<"a.txt">>
                    /\ invoked[i].bucket = "post"}) = 1

\* C27: a setter of the context called with a single non-list key k, of
\* any length, binds exactly k to the value, leaves every other entry of
\* the store as it was and creates no other key: the effect of the call
\* with the path [k], and of utils.nested_dicts.set_dict_data.
C27_Original ==
  call.op = "set_key" =>
    LET k == Str(call.keys.segs)
        listed == set_dict_data(call.before,
                                [list |-> TRUE, segs |-> <<k>>], call.value)
        util == nested_dicts_set_dict_data(call.before, call.keys,
                                           call.value)
    IN  /\ call.raised = None
        /\ store = bind(call.before, k, call.value)
        /\ store = listed.d
        /\ store = util.d

\* C28: when set or setdefault raises the type-conflict error, the store is
\* exactly as it was before the call: no intermediate mapping has been
\* created and no value has been bound or replaced.
C28_Original ==
  (/\ call.op \in {"set", "set_key", "set_path", "setdefault"}
   /\ call.raised = "TypeError") => store = call.before

\* C29: every record handed to enqueue_persist(record, log_dir) is
\* eventually written to the database of the directory by a running
\* writer thread, records handed over after shutdown_writer was called for
\* the directory included; the writer enqueue_persist gets from
\* _get_writer_for_dir always has a live consumer thread.
C29_Original ==
  /\ \A n \in 1..MaxRecords :
       (Len(enqueued) >= n /\ enqueued[n].serializable)
         ~> (\E j \in DOMAIN table : table[j].id = n)
  /\ [][Enqueue => wpc # "exited"]_vars

\* the positions of the attempts on a global hook in the history
HookAttempts(bucket) == {i \in DOMAIN invoked : invoked[i].bucket = bucket}

====
